---- MODULE Spec2Model ----
(***************************************************************************)
(* A model of the ticketing system's retrieval-and-response core:          *)
(*   - src/ragpipe.py + src/app.py: the Streamlit application (RAGPipeline *)
(*     over two Chroma collections and the tickets.jsonl log);             *)
(*   - src/backend/app/rag/generator.py: ResponseGenerator;                *)
(*   - RAGPipeline.chunk_text as a loop, one iteration per step;           *)
(*   - src/backend/app/rag/retriever.py: TicketRetriever, and              *)
(*     find_most_similar, calculate_similarity of rag/embeddings.py;       *)
(*   - RAGPipeline.store_ticket with several calls in flight.              *)
(* Numbers: a distance or similarity is an integer number of tenths, an    *)
(* average score an integer number of sixtieths (exact for 1..3 hits), a   *)
(* generator confidence an exact fraction <<num, den>>.                    *)
(***************************************************************************)
EXTENDS Integers, Sequences, FiniteSets, TLC

\* ------------------------------------------------------------------ bounds
\* store_ticket calls (uuid4 values drawn) in one behaviour
MaxTickets == 2

\* ------------------------------------------------------- program constants
\* search_similar / search_kb / generate_response: top_k=3
TopK == 3
\* generate_response: threshold=0.7, in sixtieths
ConfidentThreshold == 42
\* chunk_text defaults
DefaultChunkSize == 300
DefaultOverlap == 50

\* ------------------------------------------------------------ small helpers
Max(a, b) == IF a >= b THEN a ELSE b
Min(a, b) == IF a <= b THEN a ELSE b

Reverse(s) == [i \in 1..Len(s) |-> s[Len(s) + 1 - i]]

RECURSIVE SumSeq(_)
SumSeq(s) == IF s = <<>> THEN 0 ELSE Head(s) + SumSeq(Tail(s))

IsPrefix(s, t) == Len(s) <= Len(t) /\ SubSeq(t, 1, Len(s)) = s

\* Python's s[a:b] on a sequence: negative indices count from the end, both
\* ends are clamped into 0..len.
PyIndex(len, i) == IF i < 0 THEN Max(len + i, 0) ELSE Min(i, len)
PySlice(s, a, b) == SubSeq(s, PyIndex(Len(s), a) + 1, PyIndex(Len(s), b))

\* ----------------------------------------------------------- ticket texts
\* A text is a sequence of tokens: single characters and whole words.
Whitespace == {" ", "\n"}

TicketTexts ==
    { <<" ", "\n">>, <<"Refund", "\n">>, <<"a", "\\", "n">> }

\* str.strip() == ""
IsBlank(text) == \A i \in 1..Len(text) : text[i] \in Whitespace

\* str.lower()
LowerTok(c) == IF c = "Refund" THEN "refund" ELSE c
Lower(text) == [i \in 1..Len(text) |-> LowerTok(text[i])]

Contains(text, word) == \E i \in 1..Len(text) : text[i] = word

categorize_ticket(text0) ==
    LET text == Lower(text0) IN
    IF Contains(text, "payment") \/ Contains(text, "deducted") THEN "Payment Issue"
    ELSE IF Contains(text, "return") THEN "Return Request"
    ELSE IF Contains(text, "refund") THEN "Refund Issue"
    ELSE IF Contains(text, "shipping") \/ Contains(text, "order")
            \/ Contains(text, "delivered") THEN "Shipping Issue"
    ELSE "General Query"

\* ------------------------------------------------------------ json lines
\* json.dumps escapes a newline and a backslash inside a string, so a record
\* is written as one line; json.loads undoes it.
RECURSIVE JsonEscape(_)
JsonEscape(s) ==
    IF s = <<>> THEN <<>>
    ELSE (IF Head(s) = "\n" THEN <<"\\", "n">>
          ELSE IF Head(s) = "\\" THEN <<"\\", "\\">>
          ELSE <<Head(s)>>) \o JsonEscape(Tail(s))

RECURSIVE JsonUnescape(_)
JsonUnescape(s) ==
    IF s = <<>> THEN <<>>
    ELSE IF Head(s) = "\\" /\ Len(s) >= 2
         THEN <<(IF s[2] = "n" THEN "\n" ELSE s[2])>> \o JsonUnescape(SubSeq(s, 3, Len(s)))
         ELSE <<Head(s)>> \o JsonUnescape(Tail(s))

JsonDumps(log) == [log EXCEPT !.text = JsonEscape(log.text)]
JsonLoads(line) == [line EXCEPT !.text = JsonUnescape(line.text)]


\* ------------------------------------------------------------------ state
VARIABLES
    collection,      \* Chroma collection "support_tickets": a set of units
    kb_collection,   \* Chroma collection "kb_docs": a set of units
    tickets_jsonl,   \* the file tickets.jsonl: [exists, lines]
    chroma,          \* what the installed chromadb does where its versions differ
    uploaded_file,   \* the st.file_uploader widget: NoUpload or [name, content]
    show_all,        \* the "Show All Tickets" checkbox
    uuid_next,       \* the next uuid4 value
    last_click,      \* what triggered the last script run
    ticket_text,     \* the text the last script run's Submit flow read
    completion,      \* how the completion request of the last Submit flow ended
    result,          \* what generate_response gave the last Submit flow
    script_error,    \* where the last script run stopped with an exception
    tickets_shown,   \* what the dashboard listed in the last script run
    context,         \* history: the documents the last Submit flow put in its prompt
    appended,        \* history: the log dicts written since the last truncation
    since_reset,     \* history: reset_support_tickets ran and no store_ticket since
    lines_before     \* history: the number of log lines before the last script run

app_vars ==
    <<collection, kb_collection, tickets_jsonl, chroma, uploaded_file, show_all,
      uuid_next, last_click, ticket_text, completion, result, script_error, tickets_shown,
      context, appended, since_reset, lines_before>>

\* ResponseGenerator.generate_response: one call
VARIABLES
    gen_similar,     \* similar_tickets: the items' similarities, in tenths
    gen_knowledge,   \* relevant_knowledge: the items' similarities, in tenths
    gen_completion,  \* how client.chat.completions.create ends for this call
    gen_text,        \* response.choices[0].message.content of a completion
    gen_result       \* what generate_response returned, NoResult before it has

gen_vars == <<gen_similar, gen_knowledge, gen_completion, gen_text, gen_result>>

\* chunk_text: one call
VARIABLES
    ck_text,      \* text
    ck_size,      \* chunk_size
    ck_overlap,   \* overlap
    ck_start,     \* start
    ck_chunks,    \* chunks
    ck_pc         \* "loop": at the while test; "done": returned

chunk_vars == <<ck_text, ck_size, ck_overlap, ck_start, ck_chunks, ck_pc>>

\* TicketRetriever and EmbeddingService.find_most_similar: one call
VARIABLES
    rt_tickets,      \* ticket_embeddings joined with tickets, in the order .all() gives
    rt_knowledge,    \* knowledge_embeddings joined with knowledge_base, likewise
    rt_candidates,   \* candidate_embeddings of find_most_similar
    rt_call,         \* the call and its arguments, NoCall before it is made
    rt_result        \* what the call returned, NoResult before it has

ret_vars == <<rt_tickets, rt_knowledge, rt_candidates, rt_call, rt_result>>

\* EmbeddingService.calculate_similarity: one call
VARIABLES
    sm_embedding1,   \* embedding1
    sm_embedding2,   \* embedding2
    sm_result        \* what the call did, NoResult before it has

sim_vars == <<sm_embedding1, sm_embedding2, sm_result>>

\* store_ticket called by several script runs at once, tickets.jsonl byte by
\* byte
VARIABLES
    lg_os,       \* the platform: whether an append-mode write is one atomic step
    lg_file,     \* the content of tickets.jsonl, a sequence of tokens
    lg_text,     \* per call: the ticket text
    lg_pc,       \* per call: where it is in store_ticket
    lg_buffer,   \* per call: what f.write has put in the file object's buffer
    lg_offset,   \* per call: the file position the flush seeked to
    lg_read      \* the file get_all_tickets read and what it did, NoResult before

log_vars == <<lg_os, lg_file, lg_text, lg_pc, lg_buffer, lg_offset, lg_read>>

\* POST /tickets/ (create_ticket) against the database
VARIABLES
    db_tickets,            \* the committed rows of tickets, in insertion order
    db_ticket_embeddings,  \* the committed rows of ticket_embeddings
    ct_request,            \* the last create_ticket call, NoResult before one
    ct_response            \* the route's answer to it

create_vars == <<db_tickets, db_ticket_embeddings, ct_request, ct_response>>

vars == <<app_vars, gen_vars, chunk_vars, ret_vars, sim_vars, log_vars, create_vars>>

NoUpload == [name |-> "", content |-> <<>>]
NoResult == [status |-> "none"]
NoContext == [ticket_docs |-> <<>>, kb_docs |-> <<>>]

\* Distances a collection query can report, in tenths (squared L2, Chroma's
\* default space, of unit-length embeddings lies in 0..4).
DistVals == {0, 12}

Replies == {"reply"}

\* The completion request: answered, or requests.post raises, or the payload
\* has no "choices".
CompletionOutcomes == {"ok", "post_raises", "malformed_payload"}

UploadFiles ==
    { [name |-> "faq.txt", content |-> <<"x">>],
      [name |-> "faq.txt", content |-> <<"y", "z">>] }

\* ------------------------------------------------------- Chroma collections
\* A where-filter {key: {"$ne": value}} is evaluated on a unit's metadata.  A
\* unit whose metadata has no such key matches or not, by chromadb version.
WhereNe(metadata, key, value) ==
    IF key \in DOMAIN metadata THEN metadata[key] # value
    ELSE chroma.ne_matches_missing_key

\* collection.delete(where={key: {"$ne": value}})
collection_delete(coll, key, value) ==
    {u \in coll : ~WhereNe(u.metadata, key, value)}

Ids(coll) == {u.id : u \in coll}

\* collection.add(documents, metadatas, ids, embeddings): a unit whose id is
\* already stored is skipped, the stored unit kept.
collection_add(coll, units) ==
    coll \cup {u \in units : u.id \notin Ids(coll)}

\* The n_results nearest units under the distances d (id -> distance), nearest
\* first, ties in id order.
RECURSIVE Nearest(_, _, _)
Nearest(coll, d, n) ==
    IF n = 0 \/ coll = {} THEN <<>>
    ELSE LET u == CHOOSE x \in coll :
                    \A y \in coll : d[x.id] < d[y.id] \/ (d[x.id] = d[y.id] /\ x.id <= y.id)
         IN <<[id |-> u.id, document |-> u.document, metadata |-> u.metadata,
               distance |-> d[u.id]]>> \o Nearest(coll \ {u}, d, n - 1)

\* search_similar(query, top_k): the hits of results[...][0]
search_similar(coll, d, top_k) == Nearest(coll, d, top_k)

\* The n_results nearest units of the knowledge collection; which of two units
\* at one distance comes first is the store's choice.
RECURSIVE NearestKb(_, _, _)
NearestKb(coll, d, n) ==
    IF n = 0 \/ coll = {} THEN <<>>
    ELSE LET u == CHOOSE x \in coll : \A y \in coll : d[x.id] <= d[y.id]
         IN <<[id |-> u.id, document |-> u.document]>> \o NearestKb(coll \ {u}, d, n - 1)

\* a knowledge query that is answered from the ticket collection
search_kb_reading_tickets(kb, d, top_k) ==
    Nearest(collection, [i \in Ids(collection) |-> 0], top_k)

\* search_kb(query, top_k): the hits of results["documents"][0]
search_kb(kb, d, top_k) == NearestKb(kb, d, top_k)

DocumentsOf(hits) == [i \in 1..Len(hits) |-> hits[i].document]

\* ------------------------------------------------------------- RAGPipeline
reset_support_tickets(coll, file) ==
    [collection |-> collection_delete(coll, "id", ""),
     file |-> IF file.exists THEN [exists |-> TRUE, lines |-> <<>>] ELSE file]

\* The class body's own statement, run when the module is loaded.
class_body_clear(file) ==
    IF file.exists THEN [exists |-> TRUE, lines |-> <<>>] ELSE file

TicketLog(ticket_id, text, category, response, score, is_confident) ==
    [id |-> ticket_id, text |-> text, category |-> category, response |-> response,
     confidence |-> score, escalate |-> ~is_confident]

store_ticket(coll, file, ticket_id, text, category, response, score, is_confident) ==
    LET added == collection_add(coll,
                    {[id |-> ticket_id, document |-> text,
                      metadata |-> [category |-> category]]})
        log == TicketLog(ticket_id, text, category, response, score, is_confident)
    IN [collection |-> added,
        file |-> [exists |-> TRUE, lines |-> Append(file.lines, JsonDumps(log))]]

\* get_all_tickets without the [::-1]
get_all_tickets_oldest_first(file) ==
    IF file.exists
    THEN [i \in 1..Len(file.lines) |-> JsonLoads(file.lines[i])]
    ELSE <<>>

get_all_tickets(file) ==
    IF file.exists
    THEN Reverse([i \in 1..Len(file.lines) |-> JsonLoads(file.lines[i])])
    ELSE <<>>

\* chunk_text: the loop's condition and the two assignments of its body
chunk_continues(text, start) == start < Len(text)
chunk_window(text, start, chunk_size) == PySlice(text, start, start + chunk_size)
\* start += chunk_size, the overlap forgotten
chunk_next_start_no_overlap(start, chunk_size, overlap) == start + chunk_size
chunk_next_start(start, chunk_size, overlap) == start + chunk_size - overlap

\* the loop run to its end (defined when it ends: overlap < chunk_size)
RECURSIVE chunk_loop(_, _, _, _, _)
chunk_loop(text, chunk_size, overlap, start, chunks) ==
    IF chunk_continues(text, start)
    THEN chunk_loop(text, chunk_size, overlap, chunk_next_start(start, chunk_size, overlap),
                    Append(chunks, chunk_window(text, start, chunk_size)))
    ELSE chunks

chunk_text(text, chunk_size, overlap) == chunk_loop(text, chunk_size, overlap, 0, <<>>)

\* The id of chunk i is f"{source_name}_{i}".  The number is the text after
\* the last underscore, so two (source_name, i) pairs never format to the same
\* string: the id is kept as the pair.
\* ids numbered from 1
index_uploaded_kb_ids_from_one(kb, text, source_name) ==
    LET chunks == chunk_text(text, DefaultChunkSize, DefaultOverlap)
        units == {[id |-> <<source_name, i>>, document |-> chunks[i],
                   metadata |-> [source |-> source_name]] : i \in 1..Len(chunks)}
    IN collection_add(kb, units)

index_uploaded_kb(kb, text, source_name) ==
    LET chunks == chunk_text(text, DefaultChunkSize, DefaultOverlap)
        units == {[id |-> <<source_name, i - 1>>, document |-> chunks[i],
                   metadata |-> [source |-> source_name]] : i \in 1..Len(chunks)}
    IN collection_add(kb, units)

\* generate_response(query, top_k=3, threshold=0.7) on the hits of the ticket
\* query: avg_score in sixtieths, then the completion request.
avg_score(hits) ==
    IF hits = <<>> THEN 0
    ELSE (SumSeq([i \in 1..Len(hits) |-> 10 - hits[i].distance]) * 6) \div Len(hits)

pipeline_generate_response(hits, outcome, reply) ==
    IF outcome = "ok"
    THEN [status |-> "returned", reply |-> reply, score |-> avg_score(hits),
          is_confident |-> avg_score(hits) >= ConfidentThreshold]
    ELSE [status |-> "raised"]


\* ------------------------------------------------------------------ app.py
\* One run of the Streamlit script, top to bottom: the reset button (24-26),
\* the upload block (31-34), the Submit flow (43-64), the dashboard (71-82).
\* An exception ends the run where it is raised.
ScriptRun(click, text, upload, show, d, dk, outcome, reply) ==
    LET r0 == IF click = "reset"
              THEN reset_support_tickets(collection, tickets_jsonl)
              ELSE [collection |-> collection, file |-> tickets_jsonl]
        kb == IF upload = NoUpload
              THEN kb_collection
              ELSE index_uploaded_kb(kb_collection, upload.content, upload.name)
        submit == click = "submit" /\ ~IsBlank(text)
        similar == search_similar(r0.collection, d, TopK)
        gen == pipeline_generate_response(similar, outcome, reply)
        st == IF submit /\ gen.status = "returned"
              THEN store_ticket(r0.collection, r0.file, uuid_next, text,
                                categorize_ticket(text), gen.reply, gen.score,
                                gen.is_confident)
              ELSE r0
        stored == submit /\ gen.status = "returned"
        error == IF submit /\ gen.status = "raised" THEN "generate_response" ELSE "none"
    IN /\ collection' = st.collection
       /\ tickets_jsonl' = st.file
       /\ kb_collection' = kb
       /\ uploaded_file' = upload
       /\ show_all' = show
       /\ uuid_next' = IF submit THEN uuid_next + 1 ELSE uuid_next
       /\ last_click' = click
       /\ ticket_text' = IF click = "submit" THEN text ELSE <<>>
       /\ completion' = IF submit THEN outcome ELSE "none"
       /\ result' = IF submit THEN gen ELSE NoResult
       /\ script_error' = error
       /\ tickets_shown' = IF show /\ error = "none" THEN get_all_tickets(st.file) ELSE <<>>
       /\ context' = IF submit
                     THEN [ticket_docs |-> DocumentsOf(similar),
                           kb_docs |-> DocumentsOf(search_kb(kb, dk, TopK))]
                     ELSE NoContext
       /\ appended' = IF click = "reset" /\ tickets_jsonl.exists THEN <<>>
                      ELSE IF stored
                      THEN Append(appended, TicketLog(uuid_next, text, categorize_ticket(text),
                                                      gen.reply, gen.score, gen.is_confident))
                      ELSE appended
       /\ since_reset' = IF click = "reset" THEN TRUE
                         ELSE IF stored THEN FALSE ELSE since_reset
       /\ lines_before' = Len(tickets_jsonl.lines)
       /\ UNCHANGED <<chroma, gen_vars, chunk_vars, ret_vars, sim_vars, log_vars, create_vars>>

NoDistances == [i \in {} |-> 0]

ClickReset ==
    ScriptRun("reset", <<>>, uploaded_file, show_all, NoDistances, NoDistances, "ok", "reply")

\* A reset run that stops between line 28 and line 29: the delete has run, the
\* open of the log raises (or the run is killed there), nothing after it runs.
ClickResetInterrupted ==
    /\ collection' = collection_delete(collection, "id", "")
    /\ last_click' = "reset_interrupted"
    /\ ticket_text' = <<>>
    /\ completion' = "none"
    /\ result' = NoResult
    /\ script_error' = "reset_support_tickets"
    /\ tickets_shown' = <<>>
    /\ context' = NoContext
    /\ lines_before' = Len(tickets_jsonl.lines)
    /\ UNCHANGED <<kb_collection, tickets_jsonl, chroma, uploaded_file, show_all, uuid_next,
                   appended, since_reset, gen_vars, chunk_vars, ret_vars, sim_vars, log_vars, create_vars>>

ClickSubmit ==
    /\ uuid_next <= MaxTickets
    /\ \E text \in TicketTexts, d \in [Ids(collection) -> DistVals],
          dk \in [Ids(kb_collection) -> DistVals],
          outcome \in CompletionOutcomes, reply \in Replies :
          ScriptRun("submit", text, uploaded_file, show_all, d, dk, outcome, reply)

ChooseFile ==
    \E f \in UploadFiles :
        /\ f # uploaded_file
        /\ ScriptRun("upload", <<>>, f, show_all, NoDistances, NoDistances, "ok", "reply")

RemoveFile ==
    /\ uploaded_file # NoUpload
    /\ ScriptRun("remove", <<>>, NoUpload, show_all, NoDistances, NoDistances, "ok", "reply")

ToggleShowAll ==
    ScriptRun("checkbox", <<>>, uploaded_file, ~show_all, NoDistances, NoDistances, "ok", "reply")

\* The process starts again: ragpipe is imported (the class body runs), a new
\* in-memory Chroma client holds two empty collections, and a new session's
\* first script run finds no widget set.
ProcessStart ==
    /\ collection' = {}
    /\ kb_collection' = {}
    /\ tickets_jsonl' = class_body_clear(tickets_jsonl)
    /\ uploaded_file' = NoUpload
    /\ show_all' = FALSE
    /\ last_click' = "start"
    /\ ticket_text' = <<>>
    /\ completion' = "none"
    /\ result' = NoResult
    /\ script_error' = "none"
    /\ tickets_shown' = <<>>
    /\ context' = NoContext
    /\ appended' = IF tickets_jsonl.exists THEN <<>> ELSE appended
    /\ lines_before' = Len(tickets_jsonl.lines)
    /\ UNCHANGED <<chroma, uuid_next, since_reset, gen_vars, chunk_vars, ret_vars, sim_vars, log_vars, create_vars>>

AppInit ==
    /\ collection = {}
    /\ kb_collection = {}
    /\ tickets_jsonl \in {[exists |-> FALSE, lines |-> <<>>], [exists |-> TRUE, lines |-> <<>>]}
    /\ chroma \in [ne_matches_missing_key : BOOLEAN]
    /\ uploaded_file = NoUpload
    /\ show_all = FALSE
    /\ uuid_next = 1
    /\ last_click = "start"
    /\ ticket_text = <<>>
    /\ completion = "none"
    /\ result = NoResult
    /\ script_error = "none"
    /\ tickets_shown = <<>>
    /\ context = NoContext
    /\ appended = <<>>
    /\ since_reset = FALSE
    /\ lines_before = 0

AppNext ==
    \/ ClickReset
    \/ ClickResetInterrupted
    \/ ClickSubmit
    \/ ChooseFile
    \/ RemoveFile
    \/ ToggleShowAll
    \/ ProcessStart

\* ------------------------------------- backend/app/rag/generator.py
\* bounds: retrieved items per list
MaxHits == 2

\* settings.ESCALATION_THRESHOLD = 0.5, in tenths
EscalationThreshold == 5

\* Similarities an item can carry: cosines -1, 0.7 and 1, and values outside
\* [-1, 1] that a caller's list may hold.
SimVals == {-20, -10, 7, 10, 20}

SimLists == UNION {[1..n -> SimVals] : n \in 0..MaxHits}

\* chat.completions.create: a completion, an exception (network, timeout), or
\* a response whose choices list is empty.
GenOutcomes == {"ok", "raises", "malformed"}

\* message.content of a completion: an answer, or an empty string
GenTexts == {"generated text", ""}

\* the sum started at 0.0 instead of the 0.5 base
raw_confidence_no_base(similar, knowledge) ==
    LET lt == Max(Len(similar), 1)
        lk == Max(Len(knowledge), 1)
    IN [num |-> (IF similar # <<>> THEN 3 * SumSeq(similar) * lk ELSE 0)
                + (IF knowledge # <<>> THEN 2 * SumSeq(knowledge) * lt ELSE 0),
        den |-> 100 * lt * lk]

\* 0.5 + avg(similar) * 0.3 + avg(knowledge) * 0.2 as the exact fraction
\* num / den, den = 100 * len(similar or [1]) * len(knowledge or [1])
raw_confidence(similar, knowledge) ==
    LET lt == Max(Len(similar), 1)
        lk == Max(Len(knowledge), 1)
    IN [num |-> 50 * lt * lk
                + (IF similar # <<>> THEN 3 * SumSeq(similar) * lk ELSE 0)
                + (IF knowledge # <<>> THEN 2 * SumSeq(knowledge) * lt ELSE 0),
        den |-> 100 * lt * lk]

\* the clamp left out
clamp01_missing(c) == c

\* min(max(confidence, 0.0), 1.0)
clamp01(c) == [num |-> Min(Max(c.num, 0), c.den), den |-> c.den]

calculate_confidence(similar, knowledge) == clamp01(raw_confidence(similar, knowledge))

extract_sources(similar, knowledge) ==
    [i \in 1..Len(similar) |-> [type |-> "ticket", id |-> i, similarity |-> similar[i]]]
    \o [i \in 1..Len(knowledge) |-> [type |-> "knowledge", id |-> i, similarity |-> knowledge[i]]]

\* confidence < settings.ESCALATION_THRESHOLD
BelowThreshold(c, tenths) == c.num * 10 < tenths * c.den
\* confidence <= threshold
should_escalate_le(confidence) == confidence.num * 10 <= EscalationThreshold * confidence.den
should_escalate(confidence) == BelowThreshold(confidence, EscalationThreshold)

FallbackReply == "unable to generate a response"

\* the except branch's literal
generator_fallback ==
    [response |-> FallbackReply, confidence |-> [num |-> 0, den |-> 1],
     sources |-> <<>>, should_escalate |-> TRUE]

\* an except clause that catches the API's exception only: an empty choices
\* list (IndexError) leaves the method
generator_generate_response_narrow_except(similar, knowledge, outcome, text) ==
    IF outcome = "ok"
    THEN [response |-> text,
          confidence |-> calculate_confidence(similar, knowledge),
          sources |-> extract_sources(similar, knowledge),
          should_escalate |-> should_escalate(calculate_confidence(similar, knowledge))]
    ELSE IF outcome = "raises" THEN generator_fallback
    ELSE [status |-> "raised"]

\* a confidence that reads the completion: an empty answer scores 0
generator_generate_response_scoring_text(similar, knowledge, outcome, text) ==
    IF outcome = "ok"
    THEN LET confidence == IF text = "" THEN [num |-> 0, den |-> 1]
                           ELSE calculate_confidence(similar, knowledge)
         IN [response |-> text, confidence |-> confidence,
             sources |-> extract_sources(similar, knowledge),
             should_escalate |-> should_escalate(confidence)]
    ELSE generator_fallback

\* ResponseGenerator.generate_response: every failure inside the try block
\* reaches `except Exception`; the returned text is message.content as it
\* came, and _calculate_confidence never reads its response argument.
generator_generate_response(similar, knowledge, outcome, text) ==
    IF outcome = "ok"
    THEN LET confidence == calculate_confidence(similar, knowledge)
         IN [response |-> text, confidence |-> confidence,
             sources |-> extract_sources(similar, knowledge),
             should_escalate |-> should_escalate(confidence)]
    ELSE generator_fallback

GenInit ==
    /\ gen_similar \in SimLists
    /\ gen_knowledge \in SimLists
    /\ gen_completion \in GenOutcomes
    /\ gen_text \in GenTexts
    /\ gen_result = NoResult

GenIdle ==
    /\ gen_similar = <<>>
    /\ gen_knowledge = <<>>
    /\ gen_completion = "ok"
    /\ gen_text = "generated text"
    /\ gen_result = NoResult

GenerateResponse ==
    /\ gen_result = NoResult
    /\ gen_result' = generator_generate_response(gen_similar, gen_knowledge,
                                                 gen_completion, gen_text)
    /\ UNCHANGED <<gen_similar, gen_knowledge, gen_completion, gen_text, app_vars, chunk_vars, ret_vars, sim_vars, log_vars, create_vars>>

GenNext ==
    \/ GenerateResponse

\* ------------------------------------------------ TicketRetriever (backend)
\* settings.SIMILARITY_THRESHOLD = 0.7, in tenths
SIMILARITY_THRESHOLD == 7
MAX_RETRIEVED_DOCS == 5

\* bounds
MaxTicketRows == 2
MaxKnowledgeRows == 2
MaxCandidates == 6
MaxLimit == 3

\* An optional argument: None, or a value.
None == <<>>
Some(v) == <<v>>
NoCall == [fn |-> "none"]

\* `if limit is None: limit = settings.MAX_RETRIEVED_DOCS`
limit_or_default(limit) == IF limit = None THEN MAX_RETRIEVED_DOCS ELSE limit[1]

\* `if exclude_ticket_id:` is the truth value of the argument: None and 0 are
\* false.
is_truthy(opt) == opt # None /\ opt[1] # 0

\* `if exclude_ticket_id is not None:`
is_given(opt) == opt # None

\* A row of either store carries the similarity calculate_similarity gives it
\* for the query of the call, in tenths: a cosine below zero, one at the
\* shipped threshold, one above it.
RowSims == {-1, 7, 9}

\* tickets.id is an Integer primary key: the database numbers the rows it
\* inserts from 1, a row inserted with its id can hold 0.
TicketStores ==
    UNION { { [i \in 1..n |-> [ticket_id |-> base + i - 1, similarity |-> sims[i]]] :
                sims \in [1..n -> RowSims], base \in {0, 1} } : n \in 0..MaxTicketRows }

\* a knowledge row is active with any similarity, or inactive with one that
\* would qualify
KnowledgeRowKinds ==
    {[similarity |-> s, is_active |-> TRUE] : s \in RowSims}
        \cup {[similarity |-> 9, is_active |-> FALSE]}

KnowledgeStores ==
    UNION { { [i \in 1..n |-> [knowledge_id |-> i, similarity |-> kinds[i].similarity,
                               is_active |-> kinds[i].is_active]] :
                kinds \in [1..n -> KnowledgeRowKinds] } :
            n \in 0..MaxKnowledgeRows }

CandidateLists == UNION { [1..n -> RowSims] : n \in 0..MaxCandidates }

Limits == {None} \cup {Some(n) : n \in -1..MaxLimit}
Excludes == {None, Some(0), Some(1)}
Thresholds == {None, Some(-1), Some(9)}

Returned(items) == [status |-> "returned", items |-> items]
Raised == [status |-> "raised", items |-> <<>>]

\* the loops at retriever.py 42-52, 103-113 and embeddings.py 77-83: the rows
\* whose similarity is at least the threshold, in row order
keep_at_least(rows, threshold) == SelectSeq(rows, LAMBDA r : r.similarity >= threshold)

\* list.sort(key=similarity, reverse=True): descending, and stable: rows of
\* equal similarity keep the order they had.
RECURSIVE insert_after_equal(_, _)
insert_after_equal(sorted, x) ==
    IF sorted = <<>> THEN <<x>>
    ELSE IF Head(sorted).similarity >= x.similarity
    THEN <<Head(sorted)>> \o insert_after_equal(Tail(sorted), x)
    ELSE <<x>> \o sorted

RECURSIVE insert_before_equal(_, _)
insert_before_equal(sorted, x) ==
    IF sorted = <<>> THEN <<x>>
    ELSE IF Head(sorted).similarity > x.similarity
    THEN <<Head(sorted)>> \o insert_before_equal(Tail(sorted), x)
    ELSE <<x>> \o sorted

RECURSIVE sort_into(_, _, _)
sort_into(sorted, rows, stable) ==
    IF rows = <<>> THEN sorted
    ELSE sort_into(IF stable THEN insert_after_equal(sorted, Head(rows))
                   ELSE insert_before_equal(sorted, Head(rows)),
                   Tail(rows), stable)

\* a descending sort that puts later rows first among equals
sort_by_similarity_unstable(rows) == sort_into(<<>>, rows, FALSE)
sort_by_similarity(rows) == sort_into(<<>>, rows, TRUE)

\* EmbeddingService.find_most_similar(query_embedding, candidate_embeddings,
\* threshold=None); candidates[i] is the similarity of candidate i - 1.
find_most_similar(candidates, threshold) ==
    LET thr == IF threshold = None THEN SIMILARITY_THRESHOLD ELSE threshold[1]
        rows == [i \in 1..Len(candidates) |-> [index |-> i - 1, similarity |-> candidates[i]]]
    IN PySlice(sort_by_similarity(keep_at_least(rows, thr)), 0, MAX_RETRIEVED_DOCS)

\* the rows the ticket query yields (retriever.py 28-35)
ticket_candidates(rows, exclude_ticket_id) ==
    IF is_truthy(exclude_ticket_id)
    THEN SelectSeq(rows, LAMBDA r : r.ticket_id # exclude_ticket_id[1])
    ELSE rows

\* the rows the knowledge query yields (retriever.py 85-96); no call in the
\* repository passes a category
knowledge_candidates(rows) == SelectSeq(rows, LAMBDA r : r.is_active)

\* find_similar_tickets without its `except Exception`
find_similar_tickets_no_except(rows, limit, exclude_ticket_id, fails) ==
    LET top == PySlice(sort_by_similarity(keep_at_least(
                           ticket_candidates(rows, exclude_ticket_id), SIMILARITY_THRESHOLD)),
                       0, limit_or_default(limit))
    IN IF fails THEN Raised
       ELSE Returned([i \in 1..Len(top) |->
                         [ticket |-> top[i].ticket_id, similarity |-> top[i].similarity]])

\* TicketRetriever.find_similar_tickets; fails: generate_embedding or a
\* database query raises inside the try block.
find_similar_tickets(rows, limit, exclude_ticket_id, fails) ==
    LET top == PySlice(sort_by_similarity(keep_at_least(
                           ticket_candidates(rows, exclude_ticket_id), SIMILARITY_THRESHOLD)),
                       0, limit_or_default(limit))
    IN IF fails THEN Returned(<<>>)
       ELSE Returned([i \in 1..Len(top) |->
                         [ticket |-> top[i].ticket_id, similarity |-> top[i].similarity]])

\* TicketRetriever.find_relevant_knowledge with category=None
find_relevant_knowledge(rows, limit, fails) ==
    LET top == PySlice(sort_by_similarity(keep_at_least(
                           knowledge_candidates(rows), SIMILARITY_THRESHOLD)),
                       0, limit_or_default(limit))
    IN IF fails THEN Returned(<<>>)
       ELSE Returned([i \in 1..Len(top) |->
                         [knowledge |-> top[i].knowledge_id, similarity |-> top[i].similarity]])

\* Python's a // b for b > 0: the floor
FloorDiv(a, b) == a \div b

\* hybrid_search handing the whole limit to both queries
hybrid_search_whole_limit_twice(tickets, knowledge, limit, exclude_ticket_id, fails_tickets, fails_knowledge) ==
    LET lim == limit_or_default(limit)
        st == find_similar_tickets(tickets, Some(lim), exclude_ticket_id, fails_tickets)
        rk == find_relevant_knowledge(knowledge, Some(lim), fails_knowledge)
    IN [status |-> "returned",
        similar_tickets |-> st.items,
        relevant_knowledge |-> rk.items,
        total_results |-> Len(st.items) + Len(rk.items)]

\* TicketRetriever.hybrid_search
hybrid_search(tickets, knowledge, limit, exclude_ticket_id, fails_tickets, fails_knowledge) ==
    LET lim == limit_or_default(limit)
        ticket_limit == FloorDiv(lim, 2)
        knowledge_limit == lim - ticket_limit
        st == find_similar_tickets(tickets, Some(ticket_limit), exclude_ticket_id,
                                   fails_tickets)
        rk == find_relevant_knowledge(knowledge, Some(knowledge_limit), fails_knowledge)
    IN IF st.status = "raised" \/ rk.status = "raised"
       THEN [status |-> "raised"]
       ELSE [status |-> "returned",
             similar_tickets |-> st.items,
             relevant_knowledge |-> rk.items,
             total_results |-> Len(st.items) + Len(rk.items)]

RetInit ==
    /\ rt_call = NoCall
    /\ rt_result = NoResult
    /\ \/ /\ rt_tickets \in TicketStores
          /\ rt_knowledge \in KnowledgeStores
          /\ rt_candidates = <<>>
       \/ /\ rt_tickets = <<>>
          /\ rt_knowledge = <<>>
          /\ rt_candidates \in CandidateLists

RetIdle ==
    /\ rt_call = NoCall
    /\ rt_result = NoResult
    /\ rt_tickets = <<>>
    /\ rt_knowledge = <<>>
    /\ rt_candidates = <<>>

FindMostSimilar ==
    /\ rt_call = NoCall
    /\ \E threshold \in Thresholds :
          /\ rt_call' = [fn |-> "find_most_similar", threshold |-> threshold]
          /\ rt_result' = Returned(find_most_similar(rt_candidates, threshold))
    /\ UNCHANGED <<rt_tickets, rt_knowledge, rt_candidates, app_vars, gen_vars, chunk_vars, sim_vars, log_vars, create_vars>>

FindSimilarTickets ==
    /\ rt_call = NoCall
    /\ \E limit \in Limits, exclude_ticket_id \in Excludes, fails \in BOOLEAN :
          /\ rt_call' = [fn |-> "find_similar_tickets", limit |-> limit,
                         exclude_ticket_id |-> exclude_ticket_id, fails_tickets |-> fails]
          /\ rt_result' = find_similar_tickets(rt_tickets, limit, exclude_ticket_id, fails)
    /\ UNCHANGED <<rt_tickets, rt_knowledge, rt_candidates, app_vars, gen_vars, chunk_vars, sim_vars, log_vars, create_vars>>

FindRelevantKnowledge ==
    /\ rt_call = NoCall
    /\ \E limit \in Limits, fails \in BOOLEAN :
          /\ rt_call' = [fn |-> "find_relevant_knowledge", limit |-> limit,
                         fails_knowledge |-> fails]
          /\ rt_result' = find_relevant_knowledge(rt_knowledge, limit, fails)
    /\ UNCHANGED <<rt_tickets, rt_knowledge, rt_candidates, app_vars, gen_vars, chunk_vars, sim_vars, log_vars, create_vars>>

HybridSearch ==
    /\ rt_call = NoCall
    /\ \E limit \in Limits, exclude_ticket_id \in Excludes,
          fails_tickets \in BOOLEAN, fails_knowledge \in BOOLEAN :
          /\ rt_call' = [fn |-> "hybrid_search", limit |-> limit,
                         exclude_ticket_id |-> exclude_ticket_id,
                         fails_tickets |-> fails_tickets,
                         fails_knowledge |-> fails_knowledge]
          /\ rt_result' = hybrid_search(rt_tickets, rt_knowledge, limit, exclude_ticket_id,
                                        fails_tickets, fails_knowledge)
    /\ UNCHANGED <<rt_tickets, rt_knowledge, rt_candidates, app_vars, gen_vars, chunk_vars, sim_vars, log_vars, create_vars>>

RetNext ==
    \/ FindMostSimilar
    \/ FindSimilarTickets
    \/ FindRelevantKnowledge
    \/ HybridSearch

\* ------------------------------------- EmbeddingService.calculate_similarity
\* bound
MaxDim == 2

Components == {-1, 0, 1, 2}
Embeddings == UNION { [1..n -> Components] : n \in 0..MaxDim }

\* np.dot of two 1-D arrays of one length
Dot(a, b) == SumSeq([i \in 1..Len(a) |-> a[i] * b[i]])

\* np.linalg.norm, squared
NormSq(a) == Dot(a, a)

RECURSIVE Gcd(_, _)
Gcd(a, b) == IF b = 0 THEN a ELSE Gcd(b, a % b)

Sign(x) == IF x > 0 THEN 1 ELSE IF x < 0 THEN -1 ELSE 0

\* The float dot_product / norm_product, kept exact: its sign, and its square
\* as a fraction in lowest terms.
Cosine(dot, norm_sq_product) ==
    LET g == Gcd(dot * dot, norm_sq_product)
    IN [sign |-> Sign(dot), num |-> (dot * dot) \div g, den |-> norm_sq_product \div g]

\* the float 0.0
Zero == [sign |-> 0, num |-> 0, den |-> 1]

\* calculate_similarity without its `except Exception`: np.dot raises
\* ValueError for arrays of different lengths
calculate_similarity_no_except(embedding1, embedding2) ==
    IF Len(embedding1) # Len(embedding2)
    THEN [status |-> "raised", error |-> "ValueError"]
    ELSE IF NormSq(embedding1) * NormSq(embedding2) = 0
    THEN [status |-> "returned", value |-> Zero]
    ELSE [status |-> "returned",
          value |-> Cosine(Dot(embedding1, embedding2),
                           NormSq(embedding1) * NormSq(embedding2))]

\* EmbeddingService.calculate_similarity: np.dot raises ValueError for arrays
\* of different lengths, inside the try block; the handler logs and returns
\* 0.0.
calculate_similarity(embedding1, embedding2) ==
    IF Len(embedding1) # Len(embedding2)
    THEN [status |-> "returned", value |-> Zero]
    ELSE IF NormSq(embedding1) * NormSq(embedding2) = 0
    THEN [status |-> "returned", value |-> Zero]
    ELSE [status |-> "returned",
          value |-> Cosine(Dot(embedding1, embedding2),
                           NormSq(embedding1) * NormSq(embedding2))]

SimInit ==
    /\ sm_embedding1 \in Embeddings
    /\ sm_embedding2 \in Embeddings
    /\ sm_result = NoResult

SimIdle ==
    /\ sm_embedding1 = <<>>
    /\ sm_embedding2 = <<>>
    /\ sm_result = NoResult

CalculateSimilarity ==
    /\ sm_result = NoResult
    /\ sm_result' = calculate_similarity(sm_embedding1, sm_embedding2)
    /\ UNCHANGED <<sm_embedding1, sm_embedding2, app_vars, gen_vars, chunk_vars, ret_vars,
                   log_vars, create_vars>>

SimNext ==
    \/ CalculateSimilarity

\* ------------------------------------- store_ticket, several calls in flight
\* bound
MaxInFlight == 2

Calls == 1..MaxInFlight
LogTexts == { <<"a">>, <<"Refund", "\n">> }

\* str(uuid.uuid4()) of call t
TicketId(t) == ToString(t)

\* json.dumps(log) + "\n", token by token; the newline that ends the line is
\* the only one in it
LogLine(ticket_id, text) == <<"{", ticket_id>> \o JsonEscape(text) \o <<"}", "\n">>

\* a write of data at a file position
WriteAt(file, offset, data) ==
    SubSeq(file, 1, offset) \o data \o SubSeq(file, offset + Len(data) + 1, Len(file))

\* app_vars but the ticket collection
app_vars_but_collection ==
    <<kb_collection, tickets_jsonl, chroma, uploaded_file, show_all, uuid_next, last_click,
      ticket_text, completion, result, script_error, tickets_shown, context, appended,
      since_reset, lines_before>>

\* the lines of a file: what ends with a newline, and what follows the last
RECURSIVE SplitLines(_, _)
SplitLines(file, line) ==
    IF file = <<>> THEN [complete |-> <<>>, rest |-> line]
    ELSE IF Head(file) = "\n"
    THEN LET more == SplitLines(Tail(file), <<>>)
         IN [complete |-> <<Append(line, "\n")>> \o more.complete, rest |-> more.rest]
    ELSE SplitLines(Tail(file), Append(line, Head(file)))

\* json.loads of a line as `for line in f` yields it: a whole record parses,
\* with its newline or (the last line) without; anything else raises
\* JSONDecodeError.
LineBody(line) ==
    IF line # <<>> /\ line[Len(line)] = "\n" THEN SubSeq(line, 1, Len(line) - 1) ELSE line

IsRecordLine(line) ==
    LET body == LineBody(line)
    IN /\ Len(body) >= 3
       /\ body[1] = "{"
       /\ body[Len(body)] = "}"
       /\ \A i \in 2..(Len(body) - 1) : body[i] \notin {"{", "}", "\n"}

json_loads_line(line) ==
    LET body == LineBody(line)
    IN [id |-> body[2], text |-> JsonUnescape(SubSeq(body, 3, Len(body) - 1))]

FileLines(file) ==
    LET log == SplitLines(file, <<>>)
    IN log.complete \o (IF log.rest = <<>> THEN <<>> ELSE <<log.rest>>)

\* get_all_tickets on the file's content: json.loads of every line, no
\* handler around it
get_all_tickets_of_file(file) ==
    LET lines == FileLines(file)
    IN IF \A i \in 1..Len(lines) : IsRecordLine(lines[i])
       THEN [status |-> "returned",
             tickets |-> Reverse([i \in 1..Len(lines) |-> json_loads_line(lines[i])])]
       ELSE [status |-> "raised", error |-> "JSONDecodeError"]

\* On a platform whose append-mode write is atomic (POSIX O_APPEND on a local
\* file) the flush at close is one step.  Elsewhere (the Windows C runtime, a
\* network file system) the write first seeks to the end of the file and then
\* writes at that position, and another file object's write can fall between.
LogInit ==
    /\ lg_os \in [append_atomic : BOOLEAN]
    /\ lg_file = <<>>
    /\ lg_text = [t \in Calls |-> <<>>]
    /\ lg_pc = [t \in Calls |-> "idle"]
    /\ lg_buffer = [t \in Calls |-> <<>>]
    /\ lg_offset = [t \in Calls |-> 0]
    /\ lg_read = NoResult

LogIdle ==
    /\ LogInit
    /\ lg_os = [append_atomic |-> TRUE]

\* ragpipe.py 49-57: the embedding and collection.add
StoreTicketAdd(t) ==
    /\ lg_pc[t] = "idle"
    /\ \E text \in LogTexts :
          /\ lg_text' = [lg_text EXCEPT ![t] = text]
          /\ collection' = collection_add(collection,
                               {[id |-> TicketId(t), document |-> text,
                                 metadata |-> [category |-> categorize_ticket(text)]]})
    /\ lg_pc' = [lg_pc EXCEPT ![t] = "added"]
    /\ UNCHANGED <<lg_os, lg_read, lg_file, lg_buffer, lg_offset, app_vars_but_collection, gen_vars,
                   chunk_vars, ret_vars, sim_vars, create_vars>>

\* ragpipe.py 58-68: the log dict, open(..., "a") and f.write, which leaves
\* the line in the file object's buffer
StoreTicketWrite(t) ==
    /\ lg_pc[t] = "added"
    /\ lg_buffer' = [lg_buffer EXCEPT ![t] = LogLine(TicketId(t), lg_text[t])]
    /\ lg_pc' = [lg_pc EXCEPT ![t] = "buffered"]
    /\ UNCHANGED <<lg_os, lg_read, lg_file, lg_text, lg_offset, app_vars, gen_vars, chunk_vars,
                   ret_vars, sim_vars, create_vars>>

\* the end of the with block: close flushes the buffer, atomically appended
StoreTicketCloseAppend(t) ==
    /\ lg_pc[t] = "buffered"
    /\ lg_os.append_atomic
    /\ lg_file' = lg_file \o lg_buffer[t]
    /\ lg_pc' = [lg_pc EXCEPT ![t] = "done"]
    /\ UNCHANGED <<lg_os, lg_read, lg_text, lg_buffer, lg_offset, app_vars, gen_vars, chunk_vars,
                   ret_vars, sim_vars, create_vars>>

\* the end of the with block where the append is a seek and then a write
StoreTicketCloseSeek(t) ==
    /\ lg_pc[t] = "buffered"
    /\ ~lg_os.append_atomic
    /\ lg_offset' = [lg_offset EXCEPT ![t] = Len(lg_file)]
    /\ lg_pc' = [lg_pc EXCEPT ![t] = "seeked"]
    /\ UNCHANGED <<lg_os, lg_read, lg_file, lg_text, lg_buffer, app_vars, gen_vars, chunk_vars,
                   ret_vars, sim_vars, create_vars>>

StoreTicketCloseWrite(t) ==
    /\ lg_pc[t] = "seeked"
    /\ lg_file' = WriteAt(lg_file, lg_offset[t], lg_buffer[t])
    /\ lg_pc' = [lg_pc EXCEPT ![t] = "done"]
    /\ UNCHANGED <<lg_os, lg_read, lg_text, lg_buffer, lg_offset, app_vars, gen_vars, chunk_vars,
                   ret_vars, sim_vars, create_vars>>

\* the end of the with block when the write stops partway (the disk fills, the
\* run is killed): the first k tokens of the line reach the file
StoreTicketCloseTorn(t) ==
    /\ lg_pc[t] = "buffered"
    /\ \E k \in 1..(Len(lg_buffer[t]) - 1) :
          lg_file' = lg_file \o SubSeq(lg_buffer[t], 1, k)
    /\ lg_pc' = [lg_pc EXCEPT ![t] = "failed"]
    /\ UNCHANGED <<lg_os, lg_read, lg_text, lg_buffer, lg_offset, app_vars, gen_vars,
                   chunk_vars, ret_vars, sim_vars, create_vars>>

\* ragpipe.py 70-76, called by the dashboard of a script run
GetAllTickets ==
    /\ lg_read = NoResult
    /\ lg_read' = [file |-> lg_file, outcome |-> get_all_tickets_of_file(lg_file)]
    /\ UNCHANGED <<lg_os, lg_file, lg_text, lg_pc, lg_buffer, lg_offset, app_vars, gen_vars,
                   chunk_vars, ret_vars, sim_vars, create_vars>>

LogNext ==
    \/ \E t \in Calls : StoreTicketCloseTorn(t)
    \/ GetAllTickets
    \/ \E t \in Calls : StoreTicketAdd(t)
    \/ \E t \in Calls : StoreTicketWrite(t)
    \/ \E t \in Calls : StoreTicketCloseAppend(t)
    \/ \E t \in Calls : StoreTicketCloseSeek(t)
    \/ \E t \in Calls : StoreTicketCloseWrite(t)

\* ------------------------------------------- chunk_text, step by step
\* bounds
MaxTextLen == 8
MaxChunkSize == 4

\* iterations the model follows of a loop that does not end
MaxIter == MaxTextLen + 2

ChunkInit ==
    /\ ck_text \in {[i \in 1..n |-> i] : n \in 0..MaxTextLen}
    /\ ck_size \in 1..MaxChunkSize
    /\ ck_overlap \in 0..MaxChunkSize
    /\ ck_start = 0
    /\ ck_chunks = <<>>
    /\ ck_pc = "loop"

ChunkIdle ==
    /\ ck_text = <<>>
    /\ ck_size = 1
    /\ ck_overlap = 0
    /\ ck_start = 0
    /\ ck_chunks = <<>>
    /\ ck_pc = "done"

\* one iteration of the while loop
ChunkIterate ==
    /\ ck_pc = "loop"
    /\ chunk_continues(ck_text, ck_start)
    /\ Len(ck_chunks) < MaxIter
    /\ ck_chunks' = Append(ck_chunks, chunk_window(ck_text, ck_start, ck_size))
    /\ ck_start' = chunk_next_start(ck_start, ck_size, ck_overlap)
    /\ UNCHANGED <<ck_text, ck_size, ck_overlap, ck_pc, app_vars, gen_vars, ret_vars, sim_vars, log_vars, create_vars>>

\* the while test fails: return chunks
ChunkReturn ==
    /\ ck_pc = "loop"
    /\ ~chunk_continues(ck_text, ck_start)
    /\ ck_pc' = "done"
    /\ UNCHANGED <<ck_text, ck_size, ck_overlap, ck_start, ck_chunks, app_vars, gen_vars, ret_vars, sim_vars, log_vars, create_vars>>

ChunkNext ==
    \/ ChunkIterate
    \/ ChunkReturn

\* ------------------------------------------ create_ticket (backend route)
\* bound: create_ticket calls in one behaviour
MaxCreates == 3

CreateTexts == {"refund", "login"}

\* where a call stops: nowhere, TicketCategory(...) or TicketPriority(...)
\* rejecting its value before the first add, the first commit, generate_embedding,
\* the second commit
CreateFailures ==
    {"none", "enum_value", "commit_ticket", "generate_embedding", "commit_embedding"}

\* A Session: the committed tables and the objects added since the last
\* commit. tickets.id is numbered by the database at the flush.
db_add(db, table, row) == [db EXCEPT !.pending = Append(@, [table |-> table, row |-> row])]

db_commit(db) ==
    LET new_tickets == SelectSeq(db.pending, LAMBDA a : a.table = "tickets")
        new_embeddings == SelectSeq(db.pending, LAMBDA a : a.table = "ticket_embeddings")
    IN [tickets |-> db.tickets
                    \o [i \in 1..Len(new_tickets) |->
                           [id |-> Len(db.tickets) + i, title |-> new_tickets[i].row.title]],
        ticket_embeddings |-> db.ticket_embeddings
                    \o [i \in 1..Len(new_embeddings) |-> new_embeddings[i].row],
        pending |-> <<>>]

\* rollback discards what was added since the last commit, nothing else
db_rollback(db) == [db EXCEPT !.pending = <<>>]

Http500(stage) == [status |-> 500, stage |-> stage]

\* create_ticket: add and commit the ticket, generate the embedding, add and
\* commit the TicketEmbedding; any exception reaches db.rollback() and HTTP 500.
create_ticket(db, text, failure) ==
    LET s1 == db_add(db, "tickets", [title |-> text])
        s2 == db_commit(s1)
        ticket_id == Len(s2.tickets)
        s3 == db_add(s2, "ticket_embeddings",
                     [ticket_id |-> ticket_id, embedding_text |-> text])
        s4 == db_commit(s3)
    IN CASE failure = "enum_value" -> [db |-> db_rollback(db), response |-> Http500(failure)]
         [] failure = "commit_ticket" -> [db |-> db_rollback(s1), response |-> Http500(failure)]
         [] failure = "generate_embedding" ->
                [db |-> db_rollback(s2), response |-> Http500(failure)]
         [] failure = "commit_embedding" ->
                [db |-> db_rollback(s3), response |-> Http500(failure)]
         [] OTHER -> [db |-> s4, response |-> [status |-> 200, id |-> ticket_id]]

\* db.query(TicketEmbedding).join(Ticket): one row per embedding whose ticket
\* exists, with the cosine of its text against the query's
EmbeddingRows(tickets, embeddings, query) ==
    LET joined == SelectSeq(embeddings,
                            LAMBDA e : \E i \in 1..Len(tickets) : tickets[i].id = e.ticket_id)
    IN [i \in 1..Len(joined) |->
           [ticket_id |-> joined[i].ticket_id,
            similarity |-> IF joined[i].embedding_text = query THEN 10 ELSE -1]]

CreateInit ==
    /\ db_tickets = <<>>
    /\ db_ticket_embeddings = <<>>
    /\ ct_request = NoResult
    /\ ct_response = NoResult

CreateIdle == CreateInit

CreateTicket ==
    /\ Len(db_tickets) < MaxCreates
    /\ \E text \in CreateTexts, failure \in CreateFailures :
          LET done == create_ticket([tickets |-> db_tickets,
                                     ticket_embeddings |-> db_ticket_embeddings,
                                     pending |-> <<>>], text, failure)
          IN /\ db_tickets' = done.db.tickets
             /\ db_ticket_embeddings' = done.db.ticket_embeddings
             /\ ct_request' = [text |-> text, failure |-> failure,
                               tickets_before |-> db_tickets]
             /\ ct_response' = done.response
    /\ UNCHANGED <<app_vars, gen_vars, chunk_vars, ret_vars, sim_vars, log_vars>>

CreateNext ==
    \/ CreateTicket

\* --------------------------------------------------------- specifications
\* the Streamlit application
Init == AppInit /\ GenIdle /\ ChunkIdle /\ RetIdle /\ SimIdle /\ LogIdle /\ CreateIdle
Next == AppNext
Spec == Init /\ [][Next]_vars

AppIdle ==
    /\ AppInit
    /\ ~tickets_jsonl.exists
    /\ chroma = [ne_matches_missing_key |-> TRUE]

\* ResponseGenerator.generate_response over its inputs
InitGen == AppIdle /\ GenInit /\ ChunkIdle /\ RetIdle /\ SimIdle /\ LogIdle /\ CreateIdle
SpecGen == InitGen /\ [][GenNext]_vars

\* chunk_text over its arguments
InitChunk == AppIdle /\ GenIdle /\ ChunkInit /\ RetIdle /\ SimIdle /\ LogIdle /\ CreateIdle
SpecChunk == InitChunk /\ [][ChunkNext]_vars

\* the retriever's calls over stores, candidate lists and arguments
InitRet == AppIdle /\ GenIdle /\ ChunkIdle /\ RetInit /\ SimIdle /\ LogIdle /\ CreateIdle
SpecRet == InitRet /\ [][RetNext]_vars

\* calculate_similarity over pairs of embeddings
InitSim == AppIdle /\ GenIdle /\ ChunkIdle /\ RetIdle /\ SimInit /\ LogIdle /\ CreateIdle
SpecSim == InitSim /\ [][SimNext]_vars

\* store_ticket calls in flight together
\* create_ticket calls, each stopping where its failure says
InitCreate ==
    AppIdle /\ GenIdle /\ ChunkIdle /\ RetIdle /\ SimIdle /\ LogIdle /\ CreateInit
SpecCreate == InitCreate /\ [][CreateNext]_vars

InitLog == AppIdle /\ GenIdle /\ ChunkIdle /\ RetIdle /\ SimIdle /\ LogInit /\ CreateIdle
SpecLog == InitLog /\ [][LogNext]_vars

\* index_uploaded_kb on documents of every length up to MaxDocLen, character i
\* of a document written i, the knowledge collection empty or holding another
\* source.
MaxDocLen == 1000

IndexDocs ==
    {[name |-> "manual.txt", content |-> [i \in 1..n |-> i]] : n \in 1..MaxDocLen}

OtherSource ==
    {[id |-> <<"faq.txt", 0>>, document |-> <<"x">>, metadata |-> [source |-> "faq.txt"]]}

InitIndex ==
    /\ collection = {}
    /\ kb_collection \in {{}, OtherSource}
    /\ tickets_jsonl = [exists |-> FALSE, lines |-> <<>>]
    /\ chroma = [ne_matches_missing_key |-> TRUE]
    /\ uploaded_file \in IndexDocs
    /\ show_all = FALSE
    /\ uuid_next = 1
    /\ last_click = "start"
    /\ ticket_text = <<>>
    /\ completion = "none"
    /\ result = NoResult
    /\ script_error = "none"
    /\ tickets_shown = <<>>
    /\ context = NoContext
    /\ appended = <<>>
    /\ since_reset = FALSE
    /\ lines_before = 0
    /\ GenIdle
    /\ ChunkIdle
    /\ RetIdle
    /\ SimIdle
    /\ LogIdle
    /\ CreateIdle

\* app.py 31-34 on the file in the uploader
IndexUploadedKb ==
    /\ last_click = "start"
    /\ kb_collection' = index_uploaded_kb(kb_collection, uploaded_file.content,
                                          uploaded_file.name)
    /\ last_click' = "upload"
    /\ UNCHANGED <<collection, tickets_jsonl, chroma, uploaded_file, show_all, uuid_next,
                   ticket_text, completion, result, script_error, tickets_shown, context,
                   appended, since_reset, lines_before, gen_vars, chunk_vars, ret_vars, sim_vars, log_vars, create_vars>>

IndexNext ==
    \/ IndexUploadedKb

SpecIndex == InitIndex /\ [][IndexNext]_vars

\* ------------------------------------------------------------------ claims
CeilDiv(a, b) == -((-a) \div b)

\* C1: after reset_support_tickets has run, and until the next store_ticket,
\* get_all_tickets() returns an empty list and search_similar returns no
\* ticket, whatever the distances of the query.
C1_ResetLeavesNothing ==
    since_reset =>
        /\ get_all_tickets(tickets_jsonl) = <<>>
        /\ \A d \in [Ids(collection) -> DistVals] :
               search_similar(collection, d, TopK) = <<>>

\* C2: the ticket log is append-only: a step that is not a reset leaves every
\* line already in tickets.jsonl in place.
C2_LogAppendOnly ==
    [][last_click' = "reset" \/ IsPrefix(tickets_jsonl.lines, tickets_jsonl'.lines)]_vars

\* C3: when the completion call fails, ResponseGenerator.generate_response
\* returns the fixed fallback: the fallback reply, confidence 0.0, no sources,
\* should_escalate true.
C3_FallbackOnFailure ==
    (gen_result # NoResult /\ gen_completion # "ok") =>
        gen_result = [response |-> FallbackReply, confidence |-> [num |-> 0, den |-> 1],
                      sources |-> <<>>, should_escalate |-> TRUE]

C3_Witness ==
    /\ gen_completion = "malformed"
    /\ gen_similar # <<>>
    /\ gen_result # NoResult
    /\ gen_result.response = FallbackReply

\* C4: the returned confidence lies in [0, 1]; it is 0.5 when both lists are
\* empty and the completion succeeds, and 0 when the completion call fails.
C4_ConfidenceInUnitInterval ==
    gen_result # NoResult =>
        /\ "confidence" \in DOMAIN gen_result
        /\ 0 <= gen_result.confidence.num
        /\ gen_result.confidence.num <= gen_result.confidence.den
        /\ (gen_completion = "ok" /\ gen_similar = <<>> /\ gen_knowledge = <<>>)
              => 2 * gen_result.confidence.num = gen_result.confidence.den
        /\ gen_completion # "ok" => gen_result.confidence.num = 0

\* a list whose average pushes the sum past 1, clamped to exactly 1
C4_Witness ==
    /\ gen_result # NoResult
    /\ gen_completion = "ok"
    /\ raw_confidence(gen_similar, gen_knowledge).num
          > raw_confidence(gen_similar, gen_knowledge).den
    /\ gen_result.confidence.num = gen_result.confidence.den

\* C5: in every returned result should_escalate is true exactly when the
\* returned confidence is below ESCALATION_THRESHOLD.
C5_EscalateIffBelowThreshold ==
    gen_result # NoResult =>
        /\ "should_escalate" \in DOMAIN gen_result
        /\ gen_result.should_escalate
              <=> (gen_result.confidence.num * 10
                      < EscalationThreshold * gen_result.confidence.den)

\* a successful completion whose confidence is below the threshold
C5_Witness ==
    /\ gen_result # NoResult
    /\ gen_completion = "ok"
    /\ gen_result.should_escalate
    /\ gen_result.confidence.num > 0

\* C6: RAGPipeline.generate_response never propagates a failure: when the
\* completion request fails or its payload is malformed, the Submit flow still
\* gets a result, with confidence 0 and is_confident false.
C6_PipelineNeverRaises ==
    completion \in {"post_raises", "malformed_payload"} =>
        /\ result.status = "returned"
        /\ result.score = 0
        /\ ~result.is_confident

\* C7: a script run whose Submit flow read a non-blank text leaves exactly one
\* new line in the log, holding the submitted text and the values
\* generate_response returned.
C7_OneEntryPerSubmission ==
    (last_click = "submit" /\ ~IsBlank(ticket_text)) =>
        /\ Len(tickets_jsonl.lines) = lines_before + 1
        /\ LET entry == JsonLoads(tickets_jsonl.lines[Len(tickets_jsonl.lines)])
           IN /\ entry.text = ticket_text
              /\ entry.response = result.reply
              /\ entry.confidence = result.score
              /\ entry.escalate = ~result.is_confident

\* C8: get_all_tickets() returns the entries appended since the last
\* truncation, most recent first, none missing or twice.
C8_MostRecentFirst ==
    get_all_tickets(tickets_jsonl) = Reverse(appended)

\* the dashboard listed two entries, the later submission first
C8_Witness ==
    /\ Len(appended) >= 2
    /\ tickets_shown = <<appended[2], appended[1]>>
    /\ appended[1].text # appended[2].text

\* C9: chunk_text never goes on appending chunks without the start position
\* advancing (with overlap >= chunk_size it stops with an error instead).
C9_EveryIterationAdvances ==
    [][Len(ck_chunks') > Len(ck_chunks) => ck_start' > ck_start]_vars

\* C10 as stated: for len(text) > 0 and 0 <= overlap < chunk_size, chunk_text
\* returns ceil((len(text) - overlap) / (chunk_size - overlap)) chunks.
C10_CountMinusOverlap ==
    (ck_pc = "done" /\ Len(ck_text) > 0 /\ ck_overlap < ck_size) =>
        Len(ck_chunks) = CeilDiv(Len(ck_text) - ck_overlap, ck_size - ck_overlap)

\* C10 amended: for len(text) > 0 and 0 <= overlap < chunk_size, chunk_text
\* returns ceil(len(text) / (chunk_size - overlap)) chunks.
C10_CountOfStarts ==
    (ck_pc = "done" /\ Len(ck_text) > 0 /\ ck_overlap < ck_size) =>
        Len(ck_chunks) = CeilDiv(Len(ck_text), ck_size - ck_overlap)

\* a call with a real overlap that returns more chunks than the stated formula
C10_Witness ==
    /\ ck_pc = "done"
    /\ Len(ck_text) > 0
    /\ 0 < ck_overlap
    /\ ck_overlap < ck_size
    /\ Len(ck_chunks) > CeilDiv(Len(ck_text) - ck_overlap, ck_size - ck_overlap)
    /\ Len(ck_chunks) >= 3

\* the units stored under a source name
UnitsOf(kb, source_name) == {u \in kb : u.metadata.source = source_name}

\* C11: index_uploaded_kb(text, source) on a source not yet indexed stores one
\* unit per chunk: the ids are source_0 .. source_(n-1), unit i holds
\* text[i*250 : i*250+300], the n windows are all those that start inside the
\* text, no stored chunk is longer than 300, and a 1000-character document
\* gives 4 units.  Units of other sources are left as they were.
C11_OneUnitPerChunk ==
    last_click = "upload" =>
        LET text == uploaded_file.content
            s == uploaded_file.name
            U == UnitsOf(kb_collection, s)
            n == Cardinality(U)
            step == DefaultChunkSize - DefaultOverlap
        IN /\ {u.id : u \in U} = {<<s, i>> : i \in 0..(n - 1)}
           /\ \A u \in U :
                  /\ u.document = PySlice(text, u.id[2] * step,
                                          u.id[2] * step + DefaultChunkSize)
                  /\ Len(u.document) >= 1
                  /\ Len(u.document) <= DefaultChunkSize
           /\ (n - 1) * step < Len(text)
           /\ n * step >= Len(text)
           /\ Len(text) = 1000 => n = 4
           /\ kb_collection \ U \in {{}, OtherSource}

\* a 1000-character document was indexed into 4 units beside another source
C11_Witness ==
    /\ last_click = "upload"
    /\ Len(uploaded_file.content) = 1000
    /\ Cardinality(UnitsOf(kb_collection, uploaded_file.name)) = 4
    /\ OtherSource \subseteq kb_collection

\* C12: a file uploaded under a source name that is already indexed
\* overwrites the chunks stored under that name: after the script run every
\* id name_i holds the i-th chunk of the file in the uploader.
C12_ReuploadOverwrites ==
    uploaded_file # NoUpload =>
        LET chunks == chunk_text(uploaded_file.content, DefaultChunkSize, DefaultOverlap)
        IN \A i \in 1..Len(chunks) :
               \E u \in kb_collection :
                   /\ u.id = <<uploaded_file.name, i - 1>>
                   /\ u.document = chunks[i]

\* C13: find_similar_tickets and find_relevant_knowledge never return more
\* than `limit` items, whatever integer the caller passes as limit (none at
\* all for a limit below 0).
C13_AtMostLimit ==
    rt_call.fn \in {"find_similar_tickets", "find_relevant_knowledge"} =>
        Len(rt_result.items) <= Max(limit_or_default(rt_call.limit), 0)

\* The reference ranking of C14 over candidate rows: the rows with similarity
\* >= threshold; row i before row j when it scores higher, or the same and
\* comes first; the first `limit` of them.
Qualifying(rows, threshold) == {i \in 1..Len(rows) : rows[i].similarity >= threshold}

Precedes(rows, i, j) ==
    \/ rows[i].similarity > rows[j].similarity
    \/ rows[i].similarity = rows[j].similarity /\ i < j

PlaceOf(rows, threshold, i) ==
    Cardinality({j \in Qualifying(rows, threshold) : Precedes(rows, j, i)}) + 1

RankReference(rows, threshold, limit) ==
    [k \in 1..Min(limit, Cardinality(Qualifying(rows, threshold))) |->
        rows[CHOOSE i \in Qualifying(rows, threshold) : PlaceOf(rows, threshold, i) = k]]

\* every returned similarity is >= threshold, and no candidate left out scores
\* higher than a returned one
RankSound(rows, threshold, key, items) ==
    /\ \A k \in 1..Len(items) : items[k].similarity >= threshold
    /\ \A i \in 1..Len(rows) :
           (\A k \in 1..Len(items) : items[k][key] # rows[i][key]) =>
               \A k \in 1..Len(items) : rows[i].similarity <= items[k].similarity

\* the candidates and the answer of the call made, in one shape
CallRows ==
    IF rt_call.fn = "find_most_similar"
    THEN [i \in 1..Len(rt_candidates) |-> [key |-> i - 1, similarity |-> rt_candidates[i]]]
    ELSE IF rt_call.fn = "find_similar_tickets"
    THEN LET c == ticket_candidates(rt_tickets, rt_call.exclude_ticket_id)
         IN [i \in 1..Len(c) |-> [key |-> c[i].ticket_id, similarity |-> c[i].similarity]]
    ELSE LET c == knowledge_candidates(rt_knowledge)
         IN [i \in 1..Len(c) |-> [key |-> c[i].knowledge_id, similarity |-> c[i].similarity]]

CallItems ==
    LET it == rt_result.items
        key == IF rt_call.fn = "find_most_similar" THEN "index"
               ELSE IF rt_call.fn = "find_similar_tickets" THEN "ticket"
               ELSE "knowledge"
    IN [k \in 1..Len(it) |-> [key |-> it[k][key], similarity |-> it[k].similarity]]

CallThreshold ==
    IF rt_call.fn = "find_most_similar" /\ rt_call.threshold # None
    THEN rt_call.threshold[1]
    ELSE SIMILARITY_THRESHOLD

CallLimit ==
    IF rt_call.fn = "find_most_similar" THEN MAX_RETRIEVED_DOCS
    ELSE limit_or_default(rt_call.limit)

CallFails ==
    \/ rt_call.fn = "find_similar_tickets" /\ rt_call.fails_tickets
    \/ rt_call.fn = "find_relevant_knowledge" /\ rt_call.fails_knowledge

\* C14: what find_most_similar, find_similar_tickets and
\* find_relevant_knowledge return when their query succeeds is the reference
\* ranking of their candidates (for a limit that is a count, limit >= 0), and
\* for every limit each returned item has similarity >= threshold and no
\* candidate left out scores higher than a returned one.
C14_RankingIsReference ==
    (/\ rt_call.fn \in {"find_most_similar", "find_similar_tickets",
                        "find_relevant_knowledge"}
     /\ ~CallFails) =>
        /\ CallLimit >= 0 => CallItems = RankReference(CallRows, CallThreshold, CallLimit)
        /\ RankSound(CallRows, CallThreshold, "key", CallItems)

\* two tickets qualify, the one stored second scores higher; a limit of 1
\* returns that one
C14_Witness ==
    /\ rt_call.fn = "find_similar_tickets"
    /\ ~rt_call.fails_tickets
    /\ rt_call.limit = Some(1)
    /\ Len(CallRows) = 2
    /\ CallRows[1].similarity >= SIMILARITY_THRESHOLD
    /\ CallRows[1].similarity < CallRows[2].similarity
    /\ CallItems = <<CallRows[2]>>

\* find_most_similar cut more than MAX_RETRIEVED_DOCS qualifying candidates,
\* two of the returned ones tying
C14_WitnessMostSimilar ==
    /\ rt_call.fn = "find_most_similar"
    /\ Cardinality(Qualifying(CallRows, CallThreshold)) > MAX_RETRIEVED_DOCS
    /\ Len(rt_result.items) = MAX_RETRIEVED_DOCS
    /\ rt_result.items[1].similarity = rt_result.items[2].similarity
    /\ rt_result.items[2].similarity > rt_result.items[5].similarity
    /\ rt_result.items[1].index > 0

\* C15: hybrid_search with a limit that is a count (limit >= 0, or none given:
\* MAX_RETRIEVED_DOCS) hands limit // 2 to the ticket query and the rest to
\* the knowledge query; the budgets sum to limit, neither list is longer than
\* its budget, and total_results is the two lengths added, at most limit.
C15_BudgetSplit ==
    (rt_call.fn = "hybrid_search" /\ limit_or_default(rt_call.limit) >= 0) =>
        LET lim == limit_or_default(rt_call.limit)
            ticket_budget == CHOOSE q \in 0..lim : 2 * q <= lim /\ lim < 2 * q + 2
            knowledge_budget == lim - ticket_budget
        IN /\ rt_result.status = "returned"
           /\ ticket_budget + knowledge_budget = lim
           /\ knowledge_budget - ticket_budget \in {0, 1}
           /\ Len(rt_result.similar_tickets) <= ticket_budget
           /\ Len(rt_result.relevant_knowledge) <= knowledge_budget
           /\ rt_result.total_results =
                  Len(rt_result.similar_tickets) + Len(rt_result.relevant_knowledge)
           /\ rt_result.total_results <= lim
           /\ rt_call.fails_tickets \/
                  rt_result.similar_tickets =
                      find_similar_tickets(rt_tickets, Some(ticket_budget),
                                           rt_call.exclude_ticket_id, FALSE).items
           /\ rt_call.fails_knowledge \/
                  rt_result.relevant_knowledge =
                      find_relevant_knowledge(rt_knowledge, Some(knowledge_budget),
                                              FALSE).items

\* an odd limit of 3: one ticket of several that qualify, two knowledge items
C15_Witness ==
    /\ rt_call.fn = "hybrid_search"
    /\ rt_call.limit = Some(3)
    /\ Cardinality(Qualifying(rt_tickets, SIMILARITY_THRESHOLD)) >= 2
    /\ Len(rt_result.similar_tickets) = 1
    /\ Len(rt_result.relevant_knowledge) = 2
    /\ rt_result.total_results = 3

\* C16: when an exclude id is given to find_similar_tickets or hybrid_search,
\* the ticket with that id is not among the returned tickets.
C16_ExcludedNeverReturned ==
    (/\ rt_call.fn \in {"find_similar_tickets", "hybrid_search"}
     /\ is_given(rt_call.exclude_ticket_id)) =>
        LET items == IF rt_call.fn = "hybrid_search" THEN rt_result.similar_tickets
                     ELSE rt_result.items
        IN \A k \in 1..Len(items) : items[k].ticket # rt_call.exclude_ticket_id[1]

SimilaritiesOf(items) == [k \in 1..Len(items) |-> items[k].similarity]

\* C17: a query that fails is recovered where it fails: find_similar_tickets
\* and find_relevant_knowledge return [] and do not raise; hybrid_search
\* returns its three fields, the list of the query that failed empty, the
\* other list what that query returns on its own; and generate_response gives
\* for that result what it gives when the failed corpus held nothing.
C17_FailureRecoveredLocally ==
    /\ (rt_call.fn \in {"find_similar_tickets", "find_relevant_knowledge"} /\ CallFails) =>
           rt_result = Returned(<<>>)
    /\ (rt_call.fn = "hybrid_search" /\ (rt_call.fails_tickets \/ rt_call.fails_knowledge)) =>
           LET lim == limit_or_default(rt_call.limit)
               alone_t == find_similar_tickets(rt_tickets, Some(FloorDiv(lim, 2)),
                                               rt_call.exclude_ticket_id, FALSE).items
               alone_k == find_relevant_knowledge(rt_knowledge,
                                                  Some(lim - FloorDiv(lim, 2)), FALSE).items
               nothing == hybrid_search(IF rt_call.fails_tickets THEN <<>> ELSE rt_tickets,
                                        IF rt_call.fails_knowledge THEN <<>> ELSE rt_knowledge,
                                        rt_call.limit, rt_call.exclude_ticket_id,
                                        FALSE, FALSE)
           IN /\ rt_result.status = "returned"
              /\ rt_result.similar_tickets = IF rt_call.fails_tickets THEN <<>> ELSE alone_t
              /\ rt_result.relevant_knowledge =
                     IF rt_call.fails_knowledge THEN <<>> ELSE alone_k
              /\ rt_result.total_results =
                     Len(rt_result.similar_tickets) + Len(rt_result.relevant_knowledge)
              /\ \A outcome \in GenOutcomes, text \in GenTexts :
                     generator_generate_response(
                         SimilaritiesOf(rt_result.similar_tickets),
                         SimilaritiesOf(rt_result.relevant_knowledge), outcome, text)
                     = generator_generate_response(
                           SimilaritiesOf(nothing.similar_tickets),
                           SimilaritiesOf(nothing.relevant_knowledge), outcome, text)

\* the ticket query of a hybrid search failed over a store with matching
\* tickets; the knowledge results came back
C17_Witness ==
    /\ rt_call.fn = "hybrid_search"
    /\ rt_call.fails_tickets
    /\ ~rt_call.fails_knowledge
    /\ Qualifying(rt_tickets, SIMILARITY_THRESHOLD) # {}
    /\ rt_result.status = "returned"
    /\ rt_result.similar_tickets = <<>>
    /\ Len(rt_result.relevant_knowledge) >= 1

C19_ResetReachesEmptyState ==
    last_click = "reset" =>
        /\ collection = {}
        /\ tickets_jsonl.lines = <<>>
        /\ reset_support_tickets(collection, tickets_jsonl)
               = [collection |-> collection, file |-> tickets_jsonl]

\* C20: with several store_ticket calls in flight (none of them cut short
\* while writing), the log is in every state a
\* sequence of whole lines, each the record of one of the calls, and the
\* record of every call that has returned is there once.
C20_WholeRecordsOnly ==
    LET log == SplitLines(lg_file, <<>>)
    IN (\A t \in Calls : lg_pc[t] # "failed") =>
       /\ log.rest = <<>>
       /\ \A i \in 1..Len(log.complete) :
              \E t \in Calls :
                  /\ lg_pc[t] # "idle"
                  /\ log.complete[i] = LogLine(TicketId(t), lg_text[t])
       /\ \A t \in Calls :
              lg_pc[t] = "done" =>
                  Cardinality({i \in 1..Len(log.complete) :
                                  log.complete[i] = LogLine(TicketId(t), lg_text[t])}) = 1

\* C21: when a write that stopped partway has left a truncated last line after
\* whole records, get_all_tickets does not fail: it returns the entries of the
\* whole lines, most recent first, and drops the truncated one.
C21_TruncatedLineDiscarded ==
    (/\ lg_read # NoResult
     /\ SplitLines(lg_read.file, <<>>).rest # <<>>
     /\ ~IsRecordLine(SplitLines(lg_read.file, <<>>).rest)
     /\ \A i \in 1..Len(SplitLines(lg_read.file, <<>>).complete) :
            IsRecordLine(SplitLines(lg_read.file, <<>>).complete[i])) =>
        LET whole == SplitLines(lg_read.file, <<>>).complete
        IN lg_read.outcome =
               [status |-> "returned",
                tickets |-> Reverse([i \in 1..Len(whole) |-> json_loads_line(whole[i])])]

Documents(coll) == {u.document : u \in coll}

\* C22: the two corpora are independent.  A script run that resets or stores
\* a ticket leaves kb_docs as it was; a run that indexes an upload leaves
\* support_tickets and the ticket log as they were; the ticket documents of a
\* prompt all come from support_tickets and its knowledge documents all from
\* kb_docs, as many as the collection and top_k allow.
C22_CorporaIndependent ==
    [][/\ last_click' \in {"reset", "reset_interrupted", "submit"} =>
              kb_collection' = kb_collection
       /\ last_click' = "upload" =>
              /\ collection' = collection
              /\ tickets_jsonl' = tickets_jsonl
       /\ (last_click' = "submit" /\ ~IsBlank(ticket_text')) =>
              /\ \A i \in 1..Len(context'.ticket_docs) :
                     context'.ticket_docs[i] \in Documents(collection)
              /\ Len(context'.ticket_docs) = Min(TopK, Cardinality(collection))
              /\ \A i \in 1..Len(context'.kb_docs) :
                     context'.kb_docs[i] \in Documents(kb_collection)
              /\ Len(context'.kb_docs) = Min(TopK, Cardinality(kb_collection))
      ]_vars

\* a Submit flow ran with both collections holding documents and put one of
\* each in its prompt
C22_Witness ==
    /\ last_click = "submit"
    /\ context.ticket_docs # <<>>
    /\ context.kb_docs # <<>>
    /\ \A i \in 1..Len(context.kb_docs) : context.kb_docs[i] \in Documents(kb_collection)
    /\ \A i \in 1..Len(context.ticket_docs) : context.ticket_docs[i] \in Documents(collection)

\* C23: confidence and the escalation decision do not depend on the text the
\* completion returned. A run that succeeded and any other successful run over
\* the same retrieval results, whatever its text, agree on confidence and on
\* should_escalate; the same holds of RAGPipeline.generate_response's score
\* and is_confident over the same retrieved distances.
HitsOf(similarities) ==
    [i \in 1..Len(similarities) |-> [distance |-> 10 - similarities[i]]]

C23_ConfidenceIgnoresCompletionText ==
    (gen_result # NoResult /\ gen_completion = "ok") =>
        /\ \A text \in GenTexts :
               LET other == generator_generate_response(gen_similar, gen_knowledge,
                                                        "ok", text)
               IN /\ other.confidence = gen_result.confidence
                  /\ other.should_escalate = gen_result.should_escalate
        /\ \A r1, r2 \in GenTexts :
               LET run1 == pipeline_generate_response(HitsOf(gen_similar), "ok", r1)
                   run2 == pipeline_generate_response(HitsOf(gen_similar), "ok", r2)
               IN /\ run1.score = run2.score
                  /\ run1.is_confident = run2.is_confident

\* a successful completion that returned the empty text over non-empty
\* retrieval results, answered with a positive confidence
C23_Witness ==
    /\ gen_result # NoResult
    /\ gen_completion = "ok"
    /\ gen_text = ""
    /\ gen_result.response = ""
    /\ gen_similar # <<>>
    /\ gen_result.confidence.num > 0

\* C24: every confidence that RAGPipeline.generate_response returns and
\* store_ticket writes to the ticket log lies in [0, 1] (0..60 sixtieths),
\* whatever distances the ticket collection query reported.
C24_PipelineConfidenceInUnitInterval ==
    /\ result.status = "returned" => (0 <= result.score /\ result.score <= 60)
    /\ \A i \in 1..Len(tickets_jsonl.lines) :
           LET log == JsonLoads(tickets_jsonl.lines[i])
           IN 0 <= log.confidence /\ log.confidence <= 60

\* C25: the ticket ids held in the support_tickets collection are the ticket
\* ids recorded in tickets.jsonl, after any sequence of store_ticket and
\* reset_support_tickets calls, calls that stop partway included.
LoggedIds == {JsonLoads(tickets_jsonl.lines[i]).id : i \in 1..Len(tickets_jsonl.lines)}

\* Read as what every call preserves, on a build whose delete filter matches
\* the stored units: a Submit run (store_ticket) or a reset, completed or
\* stopped partway, that starts with the two id sets equal ends with them equal.
C25_CollectionIdsAreLoggedIds ==
    [][(/\ chroma.ne_matches_missing_key
        /\ last_click' \in {"submit", "reset", "reset_interrupted"}
        /\ Ids(collection) = LoggedIds)
       => Ids(collection') = LoggedIds']_vars

\* C26: with SIMILARITY_THRESHOLD 0.7 and ESCALATION_THRESHOLD 0.5, a
\* response generated from a hybrid_search result has should_escalate true
\* only when the completion failed: for every completion that succeeds,
\* whatever its text, the confidence is at least 0.5 and should_escalate is
\* false, also when the search found nothing or one of its queries failed.
C26_EscalationOnlyOnFailure ==
    (rt_call.fn = "hybrid_search" /\ rt_result.status = "returned") =>
        \A outcome \in GenOutcomes, text \in GenTexts :
            LET generated == generator_generate_response(
                                 SimilaritiesOf(rt_result.similar_tickets),
                                 SimilaritiesOf(rt_result.relevant_knowledge),
                                 outcome, text)
            IN /\ generated.should_escalate => outcome # "ok"
               /\ outcome = "ok" =>
                      2 * generated.confidence.num >= generated.confidence.den

\* weak retrieval: both stores hold rows, none reaches the threshold, neither
\* query failed, and the search returned two empty lists; the response
\* generated from them has confidence exactly 0.5 and does not escalate
C26_Witness ==
    /\ rt_call.fn = "hybrid_search"
    /\ ~rt_call.fails_tickets /\ ~rt_call.fails_knowledge
    /\ rt_tickets # <<>> /\ rt_knowledge # <<>>
    /\ rt_result.similar_tickets = <<>>
    /\ rt_result.relevant_knowledge = <<>>
    /\ limit_or_default(rt_call.limit) >= 2
    /\ LET generated == generator_generate_response(<<>>, <<>>, "ok", "generated text")
       IN /\ 2 * generated.confidence.num = generated.confidence.den
          /\ ~generated.should_escalate

\* C27: create_ticket is all-or-nothing. A call answered with HTTP 500 leaves
\* the tickets table as it was; and after any sequence of calls every persisted
\* ticket has exactly one TicketEmbedding row and is returned by
\* find_similar_tickets for a query of its own text.
EmbeddingsOf(ticket_id) ==
    {i \in 1..Len(db_ticket_embeddings) : db_ticket_embeddings[i].ticket_id = ticket_id}

VisibleToFindSimilar(ticket) ==
    LET found == find_similar_tickets(
                     EmbeddingRows(db_tickets, db_ticket_embeddings, ticket.title),
                     Some(Len(db_tickets)), None, FALSE).items
    IN \E k \in 1..Len(found) : found[k].ticket = ticket.id

C27_CreateTicketAllOrNothing ==
    /\ (ct_response # NoResult /\ ct_response.status = 500) =>
           db_tickets = ct_request.tickets_before
    /\ \A i \in 1..Len(db_tickets) :
           /\ Cardinality(EmbeddingsOf(db_tickets[i].id)) = 1
           /\ VisibleToFindSimilar(db_tickets[i])

====
